---- MODULE Spec2Model ----
(***************************************************************************)
(* A model of preprocessing/src/main.rs: the LC0 training-record decoder   *)
(* (TrainingData::read_from), the bit-order corrector                      *)
(* (reverse_bits_in_bytes), the per-stream loop (process_gz_file), the     *)
(* archive walk (process_tar_file) and main.                               *)
(*                                                                         *)
(* A u64 is modelled as the set of its set bit positions (0 = least        *)
(* significant), so that shifts, masks and ors are computed on all 64 bits *)
(* without overflowing the checker's integers.  Narrower integers (u8,     *)
(* u16, u32, and the bit pattern of an f32) are naturals.                  *)
(***************************************************************************)
EXTENDS Integers, Sequences, FiniteSets

VARIABLES
    args,               \* main: the parsed command line (the archive to read)
    pc,                 \* position in main / process_tar_file / process_gz_file
    ent,                \* process_tar_file: index of the last entry the iterator yielded
    idx,                \* process_tar_file: idx
    pos,                \* process_gz_file: read position in the decompressed stream
    training_data,      \* process_gz_file: training_data
    all_training_data,  \* process_tar_file: all_training_data
    stderr,             \* diagnostics written with eprintln!
    stdout,             \* main: the "Entry i" blocks printed so far
    exit,               \* how the process ended
    bx,                 \* bit-order corrector harness: the input x
    bv,                 \* bit-order corrector harness: the current value
    bn                  \* bit-order corrector harness: applications so far

vars == <<args, pc, ent, idx, pos, training_data, all_training_data, stderr,
          stdout, exit, bx, bv, bn>>

pipeVars == <<args, pc, ent, idx, pos, training_data, all_training_data, stderr,
              stdout, exit>>

bitVars == <<bx, bv, bn>>

----------------------------------------------------------------------------
(* Bounds of the model.                                                    *)

\* Most whole records in the stream of a generated archive entry.
MaxRecs == 2
\* Number of single-record ".gz" entries appended to a generated archive.
MaxPad == 11
\* Most set bits in a sparse input of the bit-order corrector harness.
MaxBits == 2

----------------------------------------------------------------------------
(* 64-bit words as sets of bit positions.                                  *)

U64Bits == 0..63

Shr(v, n) == {b - n : b \in {c \in v : c >= n}}

Shl(v, n) == {b + n : b \in {c \in v : c + n <= 63}}

And(v, m) == v \cap m

Or(v, w) == v \cup w

\* 0x5555555555555555
Mask55 == {b \in U64Bits : b % 2 = 0}

\* 0x3333333333333333
Mask33 == {b \in U64Bits : b % 4 < 2}

\* 0x0F0F0F0F0F0F0F0F
Mask0F == {b \in U64Bits : b % 8 < 4}

\* A slip in the first swap: the right-shifted half is not masked.
reverse_bits_unmasked(x) ==
    LET v1 == Or(Shr(x, 1), Shl(And(x, Mask55), 1))
        v2 == Or(And(Shr(v1, 2), Mask33), Shl(And(v1, Mask33), 2))
        v3 == Or(And(Shr(v2, 4), Mask0F), Shl(And(v2, Mask0F), 4))
    IN  v3

\* A slip that swaps the bytes as well (a full 64-bit bit reversal).
reverse_bits_whole_word(x) == {63 - b : b \in x}

reverse_bits_in_bytes(x) ==
    LET v1 == Or(And(Shr(x, 1), Mask55), Shl(And(x, Mask55), 1))
        v2 == Or(And(Shr(v1, 2), Mask33), Shl(And(v1, Mask33), 2))
        v3 == Or(And(Shr(v2, 4), Mask0F), Shl(And(v2, Mask0F), 4))
    IN  v3

----------------------------------------------------------------------------
(* The record layout, as the sequence of reads of TrainingData::read_from. *)

NumProbabilities == 1858

NumPlanes == 104

\* <<struct field, reader call, number of consecutive reads>>, in read order.
Fields == <<
    <<"version", "u32", 1>>,
    <<"_input_format", "u32", 1>>,
    <<"_probabilities", "f32", NumProbabilities>>,
    <<"planes", "u64", NumPlanes>>,
    <<"castling_us_ooo", "u8", 1>>,
    <<"castling_us_oo", "u8", 1>>,
    <<"castling_them_ooo", "u8", 1>>,
    <<"castling_them_oo", "u8", 1>>,
    <<"side_to_move_or_enpassant", "u8", 1>>,
    <<"rule50_count", "u8", 1>>,
    <<"_invariance_info", "u8", 1>>,
    <<"_dummy", "u8", 1>>,
    <<"_root_q", "f32", 1>>,
    <<"best_q", "f32", 1>>,
    <<"_root_d", "f32", 1>>,
    <<"best_d", "f32", 1>>,
    <<"_root_m", "f32", 1>>,
    <<"_best_m", "f32", 1>>,
    <<"_plies_left", "f32", 1>>,
    <<"_result_q", "f32", 1>>,
    <<"_result_d", "f32", 1>>,
    <<"_played_q", "f32", 1>>,
    <<"_played_d", "f32", 1>>,
    <<"_played_m", "f32", 1>>,
    <<"_orig_q", "f32", 1>>,
    <<"_orig_d", "f32", 1>>,
    <<"_orig_m", "f32", 1>>,
    <<"_visits", "u32", 1>>,
    <<"_played_idx", "u16", 1>>,
    <<"best_idx", "u16", 1>>,
    <<"_policy_kld", "f32", 1>>,
    <<"_reserved", "u32", 1>> >>

NumFields == Len(Fields)

FieldNames == {Fields[k][1] : k \in 1..NumFields}

FieldIndex == [n \in FieldNames |-> CHOOSE k \in 1..NumFields : Fields[k][1] = n]

\* A slip that reads the two move indices with read_u32.
Width_u16_as_u32(kind) ==
    CASE kind = "u8"  -> 1
      [] kind = "u16" -> 4
      [] kind = "u32" -> 4
      [] kind = "f32" -> 4
      [] kind = "u64" -> 8

\* Bytes one reader call consumes.
Width(kind) ==
    CASE kind = "u8"  -> 1
      [] kind = "u16" -> 2
      [] kind = "u32" -> 4
      [] kind = "f32" -> 4
      [] kind = "u64" -> 8

FieldSize(k) == Width(Fields[k][2]) * Fields[k][3]

RECURSIVE BytesBefore(_)
\* Bytes consumed by the reads that precede field k.
BytesBefore(k) == IF k = 1 THEN 0 ELSE BytesBefore(k - 1) + FieldSize(k - 1)

FieldOffset == [k \in 1..(NumFields + 1) |-> BytesBefore(k)]

\* Bytes consumed by one successful read_from.
RecordSize == FieldOffset[NumFields + 1]

----------------------------------------------------------------------------
(* The input format: the record binary layout of the archive's streams,    *)
(* <<field, width in bytes, count>>, little-endian.  The order of the four *)
(* castling flags and of the 15 statistics is not part of it: an input     *)
(* record holds one value in all of each group.                            *)

InputLayout == <<
    <<"format_version", 4, 1>>,
    <<"input_format", 4, 1>>,
    <<"move_probabilities", 4, 1858>>,
    <<"raw_bitboards", 8, 104>>,
    <<"castling_flags", 1, 4>>,
    <<"side_to_move_or_enpassant", 1, 1>>,
    <<"rule50_count", 1, 1>>,
    <<"invariance_info", 1, 1>>,
    <<"reserved", 1, 1>>,
    <<"statistics", 4, 15>>,
    <<"visit_count", 4, 1>>,
    <<"played_move_index", 2, 1>>,
    <<"best_move_index", 2, 1>>,
    <<"policy_kld", 4, 1>>,
    <<"reserved_tail", 4, 1>> >>

RECURSIVE InputBytesBefore(_)
InputBytesBefore(k) ==
    IF k = 1 THEN 0
    ELSE InputBytesBefore(k - 1) + InputLayout[k - 1][2] * InputLayout[k - 1][3]

InputOffset == [k \in 1..(Len(InputLayout) + 1) |-> InputBytesBefore(k)]

InputRecordSize == InputOffset[Len(InputLayout) + 1]

\* The field that byte off of an input record belongs to.
InputFieldAt ==
    [off \in 0..(InputRecordSize - 1) |->
        CHOOSE k \in 1..Len(InputLayout) :
            InputOffset[k] <= off /\ off < InputOffset[k + 1]]

Pow256 == <<1, 256, 65536, 16777216>>

RECURSIVE BitsToByte(_)
BitsToByte(js) ==
    IF js = {} THEN 0
    ELSE LET j == CHOOSE i \in js : TRUE IN (2 ^ j) + BitsToByte(js \ {j})

(* An input record is [version, pieces, rooks, tag]: its format version,   *)
(* the number of pieces on its board, its raw own-rook bitboard and a      *)
(* number stored as its visit count.                                       *)
Rec(v, n, rooks, tag) ==
    [version |-> v, pieces |-> n, rooks |-> rooks, tag |-> tag]

\* Raw (file-order) bitboard i of an input record.
InputPlane(r, i) ==
    LET own  == IF r.pieces - 4 > 8 THEN 8 ELSE r.pieces - 4
        them == r.pieces - 4 - own
    IN  IF r.pieces = 0 THEN {}
        ELSE CASE i = 0   -> 8..(7 + own)
               [] i = 3   -> r.rooks
               [] i = 5   -> {4}
               [] i = 6   -> 48..(47 + them)
               [] i = 11  -> {60}
               [] i = 103 -> U64Bits
               [] OTHER   -> {}

\* The value an input record holds in element i of a field of the layout.
InputValue(r, name, i) ==
    CASE name = "format_version" -> r.version
      [] name = "raw_bitboards" -> InputPlane(r, i)
      [] name = "visit_count" -> r.tag
      [] r.pieces > 0 /\ name = "move_probabilities" -> IF i = 0 THEN 1065353216 ELSE 0
      [] r.pieces > 0 /\ name = "castling_flags" -> 1
      [] r.pieces > 0 /\ name = "side_to_move_or_enpassant" -> 1
      [] r.pieces > 0 /\ name = "rule50_count" -> 3
      [] r.pieces > 0 /\ name = "statistics" -> 1056964608
      [] r.pieces > 0 /\ name = "played_move_index" -> 97
      [] r.pieces > 0 /\ name = "best_move_index" -> 293
      [] OTHER -> 0

\* Byte off of an input record.
InputByte(r, off) ==
    LET k   == InputFieldAt[off]
        w   == InputLayout[k][2]
        rel == off - InputOffset[k]
        v   == InputValue(r, InputLayout[k][1], rel \div w)
        b   == rel % w
    IN  IF w = 8
        THEN BitsToByte({j \in 0..7 : (8 * b + j) \in v})
        ELSE (v \div Pow256[b + 1]) % 256

(* An archive entry is [gz, header_ok, recs, tail, corrupt]: whether its   *)
(* name ends in ".gz", whether the archive iterator yields it without an   *)
(* error, the whole records of its decompressed stream, the number of      *)
(* bytes that follow the last whole record, and whether the decompressor   *)
(* reports corrupt data (rather than end of stream) after those bytes.     *)
Entry(gz, ok, recs, tail, corrupt) ==
    [gz |-> gz, header_ok |-> ok, recs |-> recs, tail |-> tail, corrupt |-> corrupt]

StreamLen(e) == Len(e.recs) * InputRecordSize + e.tail

\* Byte p of the decompressed stream of entry e; the bytes after the last
\* whole record are the start of one more version-6 record.
StreamByte(e, p) ==
    IF p < Len(e.recs) * InputRecordSize
    THEN InputByte(e.recs[(p \div InputRecordSize) + 1], p % InputRecordSize)
    ELSE IF p = Len(e.recs) * InputRecordSize THEN 6 ELSE 0

Zero6 == Rec(6, 0, {}, 0)
V5    == Rec(5, 20, {0, 7}, 0)
P20   == Rec(6, 20, {0, 7}, 0)
P6    == Rec(6, 6, {0, 7}, 0)
P7    == Rec(6, 7, {2, 7}, 0)
P8    == Rec(6, 8, {1, 4}, 0)

InputRecs == {Zero6, V5, P20, P6, P7, P8}

Streams == UNION {[1..n -> InputRecs] : n \in 0..MaxRecs}

NonGz == Entry(FALSE, TRUE, <<P20>>, 0, FALSE)

BadHeader == Entry(TRUE, FALSE, <<>>, 0, FALSE)

\* Streams that end inside a record, or with a decompression error.
BrokenEntries ==
    {Entry(TRUE, TRUE, s, t, c) :
        s \in {<<>>, <<P20>>}, t \in {1, InputRecordSize - 1}, c \in BOOLEAN}
    \cup {Entry(TRUE, TRUE, <<P20>>, 0, TRUE)}

FirstEntries ==
    {Entry(TRUE, TRUE, s, 0, FALSE) : s \in Streams}
    \cup BrokenEntries \cup {NonGz, BadHeader}

SecondEntries ==
    {Entry(TRUE, TRUE, <<P8>>, 0, FALSE), NonGz, BadHeader,
     Entry(TRUE, TRUE, <<P20>>, 0, TRUE), Entry(TRUE, TRUE, <<P20>>, 1, FALSE)}

\* The i-th appended entry: one clean record, numbered in its visit count.
Pad(i) == Entry(TRUE, TRUE, <<Rec(6, 8, {0, 7}, i)>>, 0, FALSE)

Pads == [i \in 1..MaxPad |-> Pad(i)]

AllInputRecs == InputRecs \cup {Pad(i).recs[1] : i \in 1..MaxPad}

Archives ==
    {<<>>}
    \cup {<<a, b>> : a \in FirstEntries, b \in SecondEntries}
    \cup {<<a, b>> \o Pads : a \in SecondEntries, b \in SecondEntries}

DefaultNumEntries == 10

ArgsSet ==
    {[path_ok |-> TRUE, entries |-> a, num_entries |-> n] :
        a \in Archives, n \in {0, DefaultNumEntries}}
    \cup {[path_ok |-> FALSE, entries |-> <<>>, num_entries |-> DefaultNumEntries]}

----------------------------------------------------------------------------
(* byteorder's readers over the decompressed stream of an entry.           *)

ByteBits == [b \in 0..255 |-> {j \in 0..7 : (b \div (2 ^ j)) % 2 = 1}]

\* read_exact of n bytes at p: whether the stream still holds them.
CanRead(e, p, n) == p + n <= StreamLen(e)

\* The io::ErrorKind of a read that cannot be satisfied.
ReadErrorKind(e) == IF e.corrupt THEN "InvalidData" ELSE "UnexpectedEof"

RECURSIVE ReadUInt(_, _, _)
\* read_u8 / read_u16 / read_u32::<LittleEndian> (w = 1, 2, 4); an f32 is
\* kept as its bit pattern, read the same way.
ReadUInt(e, p, w) ==
    IF w = 0 THEN 0
    ELSE ReadUInt(e, p, w - 1) + StreamByte(e, p + w - 1) * Pow256[w]

\* read_u64::<LittleEndian>
ReadU64(e, p) ==
    UNION {{8 * k + j : j \in ByteBits[StreamByte(e, p + k)]} : k \in 0..7}

----------------------------------------------------------------------------
(* TrainingData::read_from                                                 *)

\* The struct built from the record that starts at p.
Decode(e, p) ==
    [name \in FieldNames |->
        LET k   == FieldIndex[name]
            off == p + FieldOffset[k]
            w   == Width(Fields[k][2])
            n   == Fields[k][3]
        IN  IF Fields[k][2] = "u64"
            THEN [i \in 0..(n - 1) |-> reverse_bits_in_bytes(ReadU64(e, off + w * i))]
            ELSE IF n > 1
                 THEN [i \in 0..(n - 1) |-> ReadUInt(e, off + w * i, w)]
                 ELSE ReadUInt(e, off, w)]

\* Decode of a stream that holds one input record and nothing else, computed
\* once for each input record.
DecodedInput ==
    [r \in AllInputRecs |-> Decode(Entry(TRUE, TRUE, <<r>>, 0, FALSE), 0)]

\* Decode(e, p) reads bytes p .. p + RecordSize - 1 only.  When these are the
\* bytes of one whole input record r, StreamByte gives the bytes it gives for
\* the stream <<r>> at 0, and the value is looked up instead of recomputed.
DecodeAt(e, p) ==
    IF /\ RecordSize = InputRecordSize
       /\ p % InputRecordSize = 0
       /\ p \div InputRecordSize < Len(e.recs)
    THEN DecodedInput[e.recs[(p \div InputRecordSize) + 1]]
    ELSE Decode(e, p)

\* The reads are made one after the other and the first that fails ends
\* read_from with its error (the ? operator).
read_from(e, p) ==
    IF \A k \in 1..NumFields : CanRead(e, p + FieldOffset[k], FieldSize(k))
    THEN [ok |-> TRUE, data |-> DecodeAt(e, p), pos |-> p + FieldOffset[NumFields + 1]]
    ELSE [ok |-> FALSE, kind |-> ReadErrorKind(e)]

----------------------------------------------------------------------------
(* main, process_tar_file and process_gz_file.                             *)

EntryLimit == 10

SupportedVersion == 6

Init ==
    /\ args \in ArgsSet
    /\ pc = "start"
    /\ ent = 0
    /\ idx = 0
    /\ pos = 0
    /\ training_data = <<>>
    /\ all_training_data = <<>>
    /\ stderr = <<>>
    /\ stdout = 0
    /\ exit = "running"
    /\ bx = {} /\ bv = {} /\ bn = 0

\* File::open(path)?, Archive::new, archive.entries()?
OpenArchive ==
    /\ pc = "start"
    /\ pc' = IF args.path_ok THEN "entries" ELSE "tar_err"
    /\ UNCHANGED <<args, ent, idx, pos, training_data, all_training_data, stderr,
                   stdout, exit, bx, bv, bn>>

\* One turn of `for entry in archive.entries()?` up to the call of
\* process_gz_file.
NextEntry ==
    /\ pc = "entries"
    /\ IF ent = Len(args.entries)
       THEN /\ pc' = "tar_ok"
            /\ UNCHANGED <<ent, pos, training_data>>
       ELSE LET e == args.entries[ent + 1]
            IN  /\ ent' = ent + 1
                /\ IF ~e.header_ok
                   THEN pc' = "tar_err" /\ UNCHANGED <<pos, training_data>>
                   ELSE IF ~e.gz
                   THEN pc' = "entries" /\ UNCHANGED <<pos, training_data>>
                   ELSE /\ pc' = "gz"
                        /\ pos' = 0
                        /\ training_data' = <<>>
    /\ UNCHANGED <<args, idx, all_training_data, stderr, stdout, exit,
                   bx, bv, bn>>

\* After process_gz_file returned: idx += 1; if idx > 10 { break }
AfterEntry ==
    /\ idx' = idx + 1
    /\ pc' = IF idx + 1 > EntryLimit THEN "tar_ok" ELSE "entries"

\* process_gz_file: read_from returned Ok(data).
ReadRecordOk ==
    /\ pc = "gz"
    /\ LET r == read_from(args.entries[ent], pos)
       IN  /\ r.ok
           /\ training_data' = Append(training_data, r.data)
           /\ pos' = r.pos
    /\ UNCHANGED <<args, pc, ent, idx, all_training_data, stderr, stdout, exit,
                   bx, bv, bn>>

\* process_gz_file: read_from returned UnexpectedEof; the loop breaks, the
\* records are returned and process_tar_file appends them.
GzEndOfStream ==
    /\ pc = "gz"
    /\ LET r == read_from(args.entries[ent], pos)
       IN  ~r.ok /\ r.kind = "UnexpectedEof"
    /\ all_training_data' = all_training_data \o training_data
    /\ AfterEntry
    /\ UNCHANGED <<args, ent, pos, training_data, stderr, stdout, exit,
                   bx, bv, bn>>

\* process_gz_file: read_from returned any other error, which is returned;
\* process_tar_file reports it and goes on.
GzError ==
    /\ pc = "gz"
    /\ LET r == read_from(args.entries[ent], pos)
       IN  ~r.ok /\ r.kind # "UnexpectedEof"
    /\ stderr' = Append(stderr, [msg |-> "Error processing gz file", entry |-> ent])
    /\ AfterEntry
    /\ UNCHANGED <<args, ent, pos, training_data, all_training_data, stdout, exit,
                   bx, bv, bn>>

Min(a, b) == IF a < b THEN a ELSE b

\* main: process_tar_file returned Ok(training_data).  The loop prints
\* "Entry i" and then asserts the version of the i-th record.
MainOk ==
    /\ pc = "tar_ok"
    /\ LET n   == Min(args.num_entries, Len(all_training_data))
           bad == {i \in 1..n : all_training_data[i]["version"] # SupportedVersion}
       IN  IF bad = {}
           THEN stdout' = n /\ exit' = "success"
           ELSE /\ stdout' = CHOOSE i \in bad : \A j \in bad : i <= j
                /\ exit' = "panic"
    /\ pc' = "done"
    /\ UNCHANGED <<args, ent, idx, pos, training_data, all_training_data, stderr,
                   bx, bv, bn>>

\* main: process_tar_file returned Err(e); main still returns Ok(()).
MainErr ==
    /\ pc = "tar_err"
    /\ stderr' = Append(stderr, [msg |-> "Error processing tar file", entry |-> ent])
    /\ exit' = "success"
    /\ pc' = "done"
    /\ UNCHANGED <<args, ent, idx, pos, training_data, all_training_data, stdout,
                   bx, bv, bn>>

Next ==
    \/ OpenArchive
    \/ NextEntry
    \/ ReadRecordOk
    \/ GzEndOfStream
    \/ GzError
    \/ MainOk
    \/ MainErr

Spec == Init /\ [][Next]_vars

----------------------------------------------------------------------------
(* A harness for reverse_bits_in_bytes alone: x is drawn from the words    *)
(* with at most MaxBits set bits and the complements of those with at most *)
(* one, and the function is applied to it twice.                           *)

RECURSIVE Sparse(_)
Sparse(n) ==
    IF n = 0 THEN {{}}
    ELSE LET prev == Sparse(n - 1)
         IN  prev \cup {s \cup {b} : s \in prev, b \in U64Bits}

BitInputs == Sparse(MaxBits) \cup {U64Bits \ s : s \in Sparse(1)}

InitBits ==
    /\ args = [path_ok |-> FALSE, entries |-> <<>>, num_entries |-> DefaultNumEntries]
    /\ pc = "bits"
    /\ ent = 0
    /\ idx = 0
    /\ pos = 0
    /\ training_data = <<>>
    /\ all_training_data = <<>>
    /\ stderr = <<>>
    /\ stdout = 0
    /\ exit = "running"
    /\ bx \in BitInputs
    /\ bv = bx
    /\ bn = 0

ApplyCorrect ==
    /\ pc = "bits"
    /\ bn < 2
    /\ bv' = reverse_bits_in_bytes(bv)
    /\ bn' = bn + 1
    /\ UNCHANGED <<bx, args, pc, ent, idx, pos, training_data, all_training_data,
                   stderr, stdout, exit>>

NextBits == ApplyCorrect

SpecBits == InitBits /\ [][NextBits]_vars

----------------------------------------------------------------------------
(* Properties.                                                             *)

Entries == args.entries

\* The entries process_gz_file has been called on and has returned from.
Finished == {k \in 1..ent : Entries[k].header_ok /\ Entries[k].gz /\ (k < ent \/ pc # "gz")}

\* process_tar_file has returned.
Returned == pc \in {"tar_ok", "tar_err"}

\* C1: no record whose format_version is not 6 is returned by read_from or
\* collected by process_gz_file / process_tar_file.
C1_VersionGate ==
    /\ \A i \in 1..Len(training_data) : training_data[i]["version"] = 6
    /\ \A i \in 1..Len(all_training_data) : all_training_data[i]["version"] = 6

\* C2: a stream that ends with no bytes after its last whole record ends
\* process_gz_file normally; one that ends inside a record is reported as an
\* error.
C2_TruncationReported ==
    \A k \in Finished :
        ~Entries[k].corrupt =>
            ((Entries[k].tail # 0) <=> (\E d \in 1..Len(stderr) : stderr[d].entry = k))

\* C3: when entry k fails (in the archive iterator, the decompressor or the
\* decoder), process_tar_file still processes every later ".gz" entry and
\* returns.
Fails(e) == ~e.header_ok \/ (e.gz /\ (e.corrupt \/ e.tail # 0))

C3_Isolation ==
    Returned =>
        \A k \in 1..Len(Entries) : \A j \in (k + 1)..Len(Entries) :
            (Fails(Entries[k]) /\ Entries[j].gz /\ Entries[j].header_ok)
                => (pc = "tar_ok" /\ j \in Finished)

\* C4: when every stream decodes cleanly, process_tar_file returns the
\* records of the ".gz" entries, entry after entry and in stream order, and
\* nothing else.
Clean(e) ==
    /\ e.header_ok
    /\ e.tail = 0
    /\ ~e.corrupt
    /\ \A i \in 1..Len(e.recs) : e.recs[i].version = 6

RECURSIVE RecordsOf(_, _)
\* What the first n entries hold: <<entry, record>> for each whole record
\* of each ".gz" entry.
RecordsOf(es, n) ==
    IF n = 0 THEN <<>>
    ELSE RecordsOf(es, n - 1)
         \o (IF es[n].gz THEN [i \in 1..Len(es[n].recs) |-> es[n].recs[i]] ELSE <<>>)

\* The input record a decoded record came from, as far as the decoded
\* fields tell: version, visit count, and the corrected own-rook bitboard.
SameRecord(data, r) ==
    /\ data["version"] = r.version
    /\ data["_visits"] = r.tag
    /\ data["planes"][3] = {8 * (b \div 8) + 7 - (b % 8) : b \in InputPlane(r, 3)}
    /\ data["planes"][0] = {8 * (b \div 8) + 7 - (b % 8) : b \in InputPlane(r, 0)}

C4_CoverageAndOrder ==
    (pc = "tar_ok" /\ \A k \in 1..Len(Entries) : Clean(Entries[k]))
        => LET want == RecordsOf(Entries, Len(Entries))
           IN  /\ Len(all_training_data) = Len(want)
               /\ \A i \in 1..Len(want) : SameRecord(all_training_data[i], want[i])

RECURSIVE CountBits(_, _)
\* Set bits summed over planes 0..(n - 1).
CountBits(planes, n) ==
    IF n = 0 THEN 0 ELSE CountBits(planes, n - 1) + Cardinality(planes[n - 1])

\* C5: a decoded record is handed on only if its 12 piece bitboards hold
\* more than 7 pieces.
C5_PieceCountFilter ==
    \A i \in 1..Len(all_training_data) : CountBits(all_training_data[i]["planes"], 12) > 7

----------------------------------------------------------------------------
\* C6: reverse_bits_in_bytes(reverse_bits_in_bytes(x)) = x.
C6_RoundTrip == bn = 2 => bv = bx

C6_Witness == bn = 2 /\ Cardinality(bx) = 2 /\ bv = bx /\ reverse_bits_in_bytes(bx) # bx

\* C7: bit 8i + j of reverse_bits_in_bytes(x) is bit 8i + 7 - j of x, so a
\* bit stays in its byte.
C7_PerByteReversal ==
    bn = 1 =>
        \A i \in 0..7 : \A j \in 0..7 : ((8 * i + j) \in bv) <=> ((8 * i + 7 - j) \in bx)

C7_Witness == bn = 1 /\ bx = {1, 62} /\ bv = {6, 57}

----------------------------------------------------------------------------
(* The castling inference the records are compared with in C8.             *)

\* v + 1 on 64 bits.
Inc(v) ==
    IF v = U64Bits THEN {}
    ELSE LET z == CHOOSE b \in U64Bits \ v : \A c \in U64Bits \ v : b <= c
         IN  {b \in v : b > z} \cup {z}

\* x & (-x), with -x the two's complement of x.
LowestBit(x) == And(x, Inc(U64Bits \ x))

\* Reverses the order of the 8 bytes, not the bits.
swap_bytes(v) == {8 * (7 - (b \div 8)) + (b % 8) : b \in v}

CastlingInfer(r) ==
    [us_oo |-> LowestBit(r), us_ooo |-> r \ LowestBit(r),
     them_oo |-> swap_bytes(LowestBit(r)), them_ooo |-> swap_bytes(r \ LowestBit(r))]

\* The castling information a decoded record carries.
Attached(data) ==
    [us_oo |-> ByteBits[data["castling_us_oo"]],
     us_ooo |-> ByteBits[data["castling_us_ooo"]],
     them_oo |-> ByteBits[data["castling_them_oo"]],
     them_ooo |-> ByteBits[data["castling_them_ooo"]]]

\* C8: the castling masks are inferred from the own-rook bitboard of the
\* first record of a stream (lowest bit, the other bit, and their byte
\* swaps) and every record of the stream carries them.
C8_CastlingInference ==
    (pc = "gz" /\ training_data # <<>>) =>
        LET r == training_data[1]["planes"][3]
        IN  Cardinality(r) = 2 =>
                \A i \in 1..Len(training_data) :
                    Attached(training_data[i]) = CastlingInfer(r)

----------------------------------------------------------------------------
(* C9.                                                                     *)

\* The record size the layout adds up to.
LayoutSize == 4 + 4 + 1858 * 4 + 104 * 8 + 8 + 15 * 4 + 4 + 2 + 2 + 4 + 4

BitsReversedInBytes(v) == {8 * (b \div 8) + 7 - (b % 8) : b \in v}

\* Every field of data holds what input record r holds at its place in the
\* layout, read little-endian (the order inside the castling flags and
\* inside the statistics is not compared: r holds one value in each group).
DecodesTo(data, r) ==
    /\ data["version"] = InputValue(r, "format_version", 0)
    /\ data["_input_format"] = InputValue(r, "input_format", 0)
    /\ \A i \in 0..1857 :
           data["_probabilities"][i] = InputValue(r, "move_probabilities", i)
    /\ \A i \in 0..103 :
           data["planes"][i] = BitsReversedInBytes(InputValue(r, "raw_bitboards", i))
    /\ \A n \in {"castling_us_ooo", "castling_us_oo", "castling_them_ooo",
                 "castling_them_oo"} : data[n] = InputValue(r, "castling_flags", 0)
    /\ data["side_to_move_or_enpassant"] = InputValue(r, "side_to_move_or_enpassant", 0)
    /\ data["rule50_count"] = InputValue(r, "rule50_count", 0)
    /\ data["_invariance_info"] = InputValue(r, "invariance_info", 0)
    /\ data["_dummy"] = InputValue(r, "reserved", 0)
    /\ \A n \in {"_root_q", "best_q", "_root_d", "best_d", "_root_m", "_best_m",
                 "_plies_left", "_result_q", "_result_d", "_played_q", "_played_d",
                 "_played_m", "_orig_q", "_orig_d", "_orig_m"} :
           data[n] = InputValue(r, "statistics", 0)
    /\ data["_visits"] = InputValue(r, "visit_count", 0)
    /\ data["_played_idx"] = InputValue(r, "played_move_index", 0)
    /\ data["best_idx"] = InputValue(r, "best_move_index", 0)
    /\ data["_policy_kld"] = InputValue(r, "policy_kld", 0)
    /\ data["_reserved"] = InputValue(r, "reserved_tail", 0)

\* Every numeric field but the version is zero.
AllZero(data) ==
    \A n \in FieldNames \ {"version"} :
        CASE n = "planes" -> \A i \in 0..103 : data[n][i] = {}
          [] n = "_probabilities" -> \A i \in 0..1857 : data[n][i] = 0
          [] OTHER -> data[n] = 0

\* C9: process_gz_file's reader is always at a record boundary, and there,
\* with a whole version-6 record left, read_from succeeds, advances the
\* position by the 8356 bytes of the layout and returns the fields of the
\* record, read little-endian in layout order; an all-zero record with
\* format_version 6 decodes to version 6 and zeros.
C9_FixedLayout ==
    pc = "gz" =>
        LET e == Entries[ent]
            n == Len(training_data)
            r == read_from(e, pos)
        IN  /\ LayoutSize = 8356
            /\ pos = LayoutSize * n
            /\ (n < Len(e.recs) /\ e.recs[n + 1].version = 6) =>
                   /\ r.ok
                   /\ r.pos = pos + LayoutSize
                   /\ DecodesTo(r.data, e.recs[n + 1])
                   /\ (e.recs[n + 1] = Zero6 => (r.data["version"] = 6 /\ AllZero(r.data)))

C9_Witness ==
    /\ pc = "gz"
    /\ Entries[ent].recs = <<Zero6, P20>>
    /\ Len(training_data) = 2
    /\ pos = 2 * 8356
    /\ AllZero(training_data[1])
    /\ training_data[2]["best_idx"] = 293
    /\ training_data[2]["planes"][3] = {0, 7}
    /\ training_data[2]["planes"][0] = 8..15

----------------------------------------------------------------------------
\* C10: the exit status is a failure exactly when the archive could not be
\* opened, and one diagnostic is written for each entry whose stream fails.
C10_ExitAndDiagnostics ==
    pc = "done" =>
        /\ (exit = "success") <=> args.path_ok
        /\ \A k \in 1..Len(Entries) :
               (k \in Finished /\ Fails(Entries[k]))
                   => Cardinality({d \in 1..Len(stderr) : stderr[d].entry = k}) = 1

====
